---- MODULE Spec2Model ----
(***************************************************************************)
(* Inventory tracker: the in-memory store (server/storage.ts, MemStorage), *)
(* the HTTP handlers that drive it (server/routes.ts, server/auth.ts) and  *)
(* the count dialog of the client (update-count-dialog.tsx).               *)
(*                                                                         *)
(* Spec      every request handler runs from its first line to its         *)
(*           response as one step.                                         *)
(* SpecIR    as Spec, restricted to registration, issue and return.        *)
(* SpecConc  issue handlers are split at their await points and the        *)
(*           pieces of several requests interleave.                        *)
(***************************************************************************)
EXTENDS Integers, Sequences, FiniteSets, TLC

VARIABLES
    users,      \* MemStorage.users     : id -> User
    items,      \* MemStorage.items     : id -> Item
    issuances,  \* MemStorage.issuances : id -> Issuance
    audits,     \* MemStorage.audits    : id -> Audit
    currentId,  \* MemStorage.currentId
    now,        \* the wall clock read by new Date()
    dlg,        \* the client's UpdateCountDialog (component state)
    last,       \* the most recent request and its outcome
    prev,       \* the request before it
    budget,     \* how many requests the behaviour may make
    procs       \* SpecConc: the handlers in flight

vars == <<users, items, issuances, audits, currentId, now, dlg, last, prev,
          budget, procs>>

store == <<users, items, issuances, audits, currentId>>

----------------------------------------------------------------------------
(* Bounds of the model *)

\* requests made in one behaviour of Spec (SpecIR, with fewer kinds of
\* request, makes one more)
MaxReqs == 2

\* the clock runs 0..MaxClock
MaxClock == 1

\* handlers in flight at once (SpecConc)
NProcs == 2

----------------------------------------------------------------------------
(* Values *)

\* a timestamp column that holds null
NullDate == 0 - 1

\* `reason` absent from the request body (z.string().optional())
NoReason == "undefined"

\* the counter's first value
FirstId == 1

\* an id the counter never hands out
NoSuchId == FirstId - 1

\* The first entries of defaultItems, in order.
DefaultItems ==
    << [name |-> "Dell 32\" Monitor", category |-> "Monitors",
        subCategory |-> "Dell 32\" Monitors", count |-> 3],
       [name |-> "Dell 24\" Monitor", category |-> "Monitors",
        subCategory |-> "Dell 24\" Monitors", count |-> 0] >>

DefaultIds == 1..Len(DefaultItems)

\* More of defaultItems, for the statistics: one more than the top-N list
\* has room for.
StatsItems ==
    DefaultItems \o
    << [name |-> "Dell 30\" Monitor", category |-> "Monitors",
        subCategory |-> "Dell 30\" Monitors", count |-> 0],
       [name |-> "Dell Laptop", category |-> "Laptops",
        subCategory |-> "Dell Laptops", count |-> 30],
       [name |-> "London Laptop", category |-> "Laptops",
        subCategory |-> "London Laptops", count |-> 9],
       [name |-> "Dell Type C Charger", category |-> "Accessories",
        subCategory |-> "Chargers", count |-> 54] >>

\* slice(0, 5)
TopN == 5

\* a day, 1000 * 60 * 60 * 24 ms, in ticks of the clock
DayTicks == 2

\* Request inputs
Usernames     == {"ama"}
ItemBodies    == { [name |-> "Pendrive", category |-> "Accessories",
                    subCategory |-> "Storage", count |-> 2] }
\* count and reason of a count update
CountBodies   == { <<0 - 1, NoReason>>, <<2, NoReason>>, <<2, "">>,
                   <<2, "Miscount corrected">>, <<3, NoReason>>,
                   <<3, "Miscount corrected">>, <<2, "Inconsistency found">> }
\* quantity, status and expected return date of an issue request
IssueInputs   == { <<1, "Permanent", NullDate>>, <<2, "Permanent", NullDate>>,
                   <<0 - 1, "Permanent", NullDate>>, <<1, "Temporary", 0>>,
                   <<1, "Temporary", NullDate>> }
Departments   == {"Digital"}

\* the ids a request may name as an item: the default ones (deleted or not),
\* the ones created since, and one that never existed
ItemIdInputs  == DefaultIds \cup DOMAIN items \cup {NoSuchId}
IssuanceIdInputs == DOMAIN issuances \cup {NoSuchId}

----------------------------------------------------------------------------
(* Map.set / Map.delete *)

\* a variant of MapSet that keeps the new entry only
MapSet_Replacing(m, k, v) == [x \in {k} |-> v]

MapSet(m, k, v) == [x \in DOMAIN m \cup {k} |-> IF x = k THEN v ELSE m[x]]
MapDelete(m, k) == [x \in DOMAIN m \ {k} |-> m[x]]

----------------------------------------------------------------------------
(* MemStorage *)

\* what Map.get gives: the value, or nothing (undefined)
getUserByUsername(username) ==
    {id \in DOMAIN users : users[id].username = username}

getItem(id) == IF id \in DOMAIN items THEN <<items[id]>> ELSE <<>>

createUser(insertUser, id) ==
    [id |-> id, username |-> insertUser.username,
     department |-> insertUser.department, role |-> "issuer"]

createItem(insertItem, id, t) ==
    [id |-> id, name |-> insertItem.name, category |-> insertItem.category,
     subCategory |-> insertItem.subCategory, count |-> insertItem.count,
     lastUpdated |-> t]

\* { ...item, ...insertItem, id, lastUpdated: new Date() }
updateItem(item, insertItem, t) ==
    [id |-> item.id, name |-> insertItem.name, category |-> insertItem.category,
     subCategory |-> insertItem.subCategory, count |-> insertItem.count,
     lastUpdated |-> t]

\* { ...item, count, lastUpdated: new Date() }
updateItemCount(item, count, t) ==
    [item EXCEPT !.count = count, !.lastUpdated = t]

\* { ...issuance, id, returnedDate: null }
createIssuance(issuance, id) ==
    [id |-> id, itemId |-> issuance.itemId,
     authorizedById |-> issuance.authorizedById,
     quantity |-> issuance.quantity, status |-> issuance.status,
     issueDate |-> issuance.issueDate, returnDate |-> issuance.returnDate,
     recipientDepartment |-> issuance.recipientDepartment,
     returnedDate |-> NullDate]

\* a variant of issuanceOf that falls back on a stored record
issuanceOf_Defaulting(id) ==
    IF id \in DOMAIN issuances THEN <<issuances[id]>>
    ELSE IF DOMAIN issuances = {} THEN <<>>
    ELSE <<issuances[CHOOSE i \in DOMAIN issuances : TRUE]>>

\* this.issuances.get(id): <<>> for undefined
issuanceOf(id) ==
    IF id \in DOMAIN issuances THEN <<issuances[id]>> ELSE <<>>

\* a variant of updateIssuance that reopens a record already returned
updateIssuance_Reopening(issuance, returnedDate) ==
    [issuance EXCEPT !.returnedDate =
        IF issuance.returnedDate = NullDate THEN returnedDate ELSE NullDate]

\* { ...issuance, returnedDate }
updateIssuance(issuance, returnedDate) ==
    [issuance EXCEPT !.returnedDate = returnedDate]

createAudit(audit, id, t) ==
    [id |-> id, userId |-> audit.userId, action |-> audit.action,
     details |-> audit.details, timestamp |-> t]

----------------------------------------------------------------------------
(* Request validation *)

\* updateCountSchema: count is a number >= 0
updateCountSchemaOk(count) == count >= 0

\* insertIssuanceSchema.parse({...req.body, issuerId}): the schema picks seven
\* columns; a key it does not pick is stripped from the result
insertIssuanceSchemaParse(body, issuerId) ==
    [itemId |-> body.itemId, authorizedById |-> body.authorizedById,
     quantity |-> body.quantity, status |-> body.status,
     issueDate |-> body.issueDate, returnDate |-> body.returnDate,
     recipientDepartment |-> body.recipientDepartment]

IssueBodies ==
    { [itemId |-> i, authorizedById |-> a, quantity |-> k[1], status |-> k[2],
       issueDate |-> now, returnDate |-> k[3], recipientDepartment |-> d] :
      i \in ItemIdInputs, a \in DOMAIN users, k \in IssueInputs,
      d \in Departments }

\* an array, laid out: the function f on 1..n as the tuple of its values
ArrayFrom(f) == f \o <<>>

\* Array.from(this.audits.values()): a Map lists its entries in the order
\* they were set, and every audit is set under a key taken from currentId++,
\* so the k-th entry is the one with k - 1 smaller ids before it
getAudits ==
    ArrayFrom([k \in 1..Cardinality(DOMAIN audits) |->
        audits[CHOOSE a \in DOMAIN audits :
                   Cardinality({b \in DOMAIN audits : b < a}) = k - 1]])

\* Array.from(this.items.values()): items are set under keys taken from
\* currentId++ and a set on a key the Map has keeps the key's place, so the
\* Map lists the items by id
getItems ==
    ArrayFrom([k \in 1..Cardinality(DOMAIN items) |->
        items[CHOOSE a \in DOMAIN items :
                  Cardinality({b \in DOMAIN items : b < a}) = k - 1]])

\* Array.from(this.issuances.values())
getIssuances ==
    ArrayFrom([k \in 1..Cardinality(DOMAIN issuances) |->
        issuances[CHOOSE a \in DOMAIN issuances :
                      Cardinality({b \in DOMAIN issuances : b < a}) = k - 1]])

----------------------------------------------------------------------------
(* client: StatsCards, over the lists the three queries return.  A date   *)
(* arrives as a string, so it is truthy exactly when it is not null.      *)

\* a variant of isOverdue that does not look at returnedDate
isOverdue_IgnoringReturn(issuance) ==
    /\ issuance.status = "Temporary"
    /\ issuance.returnDate # NullDate
    /\ issuance.returnDate < now

\* the filter of overdueItems
isOverdue(issuance) ==
    /\ issuance.status = "Temporary"
    /\ issuance.returnDate # NullDate
    /\ ~(issuance.returnedDate # NullDate)
    /\ issuance.returnDate < now

overdueItems == SelectSeq(getIssuances, isOverdue)

\* the texts of the model that have word in them
Containing(word) ==
    IF word = "Inconsistency" THEN {"Inconsistency found"} ELSE {word}

\* details.includes(word), details being the concatenation of its parts;
\* no two parts of a template of routes.ts join into the word
Includes(details, word) ==
    \E k \in 1..Len(details) : details[k] \in Containing(word)

isDiscrepancy(audit) ==
    audit.action = "UPDATE" /\ Includes(audit.details, "Inconsistency")

discrepancyAudits == SelectSeq(getAudits, isDiscrepancy)

\* items.map(item => ({ name, count: the issuances of item.id }))
frequencies ==
    LET list == getItems IN
    ArrayFrom([k \in 1..Len(list) |->
        [name  |-> list[k].name,
         count |-> Cardinality({i \in DOMAIN issuances :
                                   issuances[i].itemId = list[k].id})]])

\* a variant of sortedPlace whose sort lets the later of two equals go first
sortedPlace_TiesReversed(list, k) ==
    1 + Cardinality({j \in 1..Len(list) : list[j].count > list[k].count})
      + Cardinality({j \in 1..Len(list) :
                        j > k /\ list[j].count = list[k].count})

\* where .sort((a, b) => b.count - a.count) puts entry k of list: after the
\* entries with a greater count and, the sort being stable, after the equal
\* ones that stood before it
sortedPlace(list, k) ==
    1 + Cardinality({j \in 1..Len(list) : list[j].count > list[k].count})
      + Cardinality({j \in 1..Len(list) :
                        j < k /\ list[j].count = list[k].count})

itemFrequency ==
    LET list == frequencies
        size == IF Len(list) < TopN THEN Len(list) ELSE TopN
    IN ArrayFrom([r \in 1..size |->
           list[CHOOSE k \in 1..Len(list) : sortedPlace(list, k) = r]])

\* Math.floor((end.getTime() - start.getTime()) / (1000 * 60 * 60 * 24))
holdDays(issuance) ==
    (issuance.returnedDate - issuance.issueDate) \div DayTicks

\* itemIssuances.reduce((acc, curr) => acc + ..., 0)
RECURSIVE totalDays(_)
totalDays(list) ==
    IF list = <<>> THEN 0 ELSE holdDays(Head(list)) + totalDays(Tail(list))

\* a variant of roundedMean that leaves the division out
roundedMean_Undivided(total, n) == total

\* Math.round(total / n): the halves go up
roundedMean(total, n) == (2 * total + n) \div (2 * n)

\* the entry of one item: none (null, filtered out) without a sample
borrowDuration(item, list) ==
    LET itemIssuances ==
            SelectSeq(list, LAMBDA i : /\ i.itemId = item.id
                                       /\ i.status = "Temporary"
                                       /\ i.returnedDate # NullDate)
    IN IF Len(itemIssuances) = 0 THEN <<>>
       ELSE << [name |-> item.name,
                days |-> roundedMean(totalDays(itemIssuances),
                                     Len(itemIssuances))] >>

RECURSIVE borrowDurations(_, _)
borrowDurations(list, issued) ==
    IF list = <<>> THEN <<>>
    ELSE borrowDuration(Head(list), issued)
             \o borrowDurations(Tail(list), issued)

\* items.map(...).filter(Boolean)
averageBorrowDuration == borrowDurations(getItems, getIssuances)

----------------------------------------------------------------------------
(* Audit details: the template strings of routes.ts, as their parts *)

CreateDetails(item) == <<"Created new item: ", item.name>>
UpdateDetails(item) == <<"Updated item: ", item.name>>
DeleteDetails(item) == <<"Deleted item: ", item.name>>

\* a variant that leaves the reason out of the details
CountDetails_ReasonDropped(item, count, reason) ==
    <<"Count updated from ", ToString(item.count), " to ", ToString(count)>>

CountDetails(item, count, reason) ==
    IF reason # NoReason /\ reason # ""
    THEN <<"Count updated from ", ToString(item.count), " to ",
           ToString(count), ". Reason: ", reason>>
    ELSE <<"Count updated from ", ToString(item.count), " to ", ToString(count)>>

IssueDetails(quantity, item) ==
    <<"Issued ", ToString(quantity), " ", item.name, "(s)">>
ReturnDetails(issuance, item) ==
    <<"Returned ", ToString(issuance.quantity), " ", item.name, "(s)">>

\* a variant of ReturnCount with the sign slipped
ReturnCount_SignSlipped(item, issuance) == item.count - issuance.quantity

\* the count a handler writes back
IssueCount(item, quantity) == item.count - quantity
ReturnCount(item, issuance) == item.count + issuance.quantity

----------------------------------------------------------------------------
(* The record of a request: what was asked and what came back.            *)
(* status is the HTTP status of the response, NoResponse when none was    *)
(* sent; found/pre are the item the handler read and its count; iss is   *)
(* the issuance id the handler created (issue) or closed (return); error  *)
(* is the message of the error the handler threw, "" when it threw none.  *)

NoResponse == "none"

\* What becomes of a request whose async handler throws: the handlers have
\* no try/catch, so the promise Express was handed rejects. Express 4 does
\* not look at it and nothing is sent; Express 5 passes the error to the
\* error middleware, which answers 500.
ThrownOutcomes == {NoResponse, "500"}

Req(op, user, id, arg, reason, status, found, pre, iss) ==
    [seq |-> last.seq + 1, op |-> op, user |-> user, id |-> id, arg |-> arg,
     reason |-> reason, status |-> status, found |-> found, pre |-> pre,
     iss |-> iss, error |-> ""]

\* the record of a request whose handler threw
Thrown(r, message) == [r EXCEPT !.error = message]

NoReq ==
    [seq |-> 0, op |-> "none", user |-> NoSuchId, id |-> NoSuchId, arg |-> 0,
     reason |-> NoReason, status |-> NoResponse, found |-> FALSE, pre |-> 0,
     iss |-> NoSuchId, error |-> ""]

Log(r) == last' = r /\ prev' = last

CanRequest == last.seq < budget

NoDialog == [open |-> FALSE, item |-> NoSuchId, expectedCount |-> 0,
             showDiscrepancy |-> FALSE]

\* a handler that has not been started
IdleProc == [pc |-> "idle", user |-> NoSuchId, itemId |-> NoSuchId,
             quantity |-> 0, iss |-> NoSuchId, item |-> <<>>,
             status |-> NoResponse]

----------------------------------------------------------------------------
Init ==
    /\ users = <<>>
    /\ items = [id \in DefaultIds |-> createItem(DefaultItems[id], id, 0)]
    /\ issuances = <<>>
    /\ audits = <<>>
    /\ currentId = FirstId + Len(DefaultItems)
    /\ now = 0
    /\ dlg = NoDialog
    /\ last = NoReq
    /\ prev = NoReq
    /\ budget = MaxReqs
    /\ procs = [p \in 1..NProcs |-> IdleProc]

\* time passes
Tick ==
    /\ now < MaxClock
    /\ now' = now + 1
    /\ UNCHANGED <<store, dlg, last, prev, budget, procs>>

\* time passes, for the statistics: a day has several ticks, and the clock
\* runs for one day
TickStats ==
    /\ now < DayTicks
    /\ now' = now + 1
    /\ UNCHANGED <<store, dlg, last, prev, budget, procs>>

----------------------------------------------------------------------------
(* server/auth.ts *)

\* POST /api/register
\* (a request for a taken username is answered 400 and changes nothing)
Register(username) ==
    /\ getUserByUsername(username) = {}
    /\ users' = MapSet(users, currentId,
           createUser([username |-> username, department |-> "Digital"],
                      currentId))
    /\ currentId' = currentId + 1
    /\ UNCHANGED <<items, issuances, audits, now, dlg, last, prev, budget, procs>>

----------------------------------------------------------------------------
(* server/routes.ts: each handler, request to response *)

\* POST /api/items
PostItem(u, body) ==
    /\ CanRequest
    /\ LET item == createItem(body, currentId, now) IN
        /\ items' = MapSet(items, currentId, item)
        /\ audits' = MapSet(audits, currentId + 1,
               createAudit([userId |-> u, action |-> "CREATE",
                            details |-> CreateDetails(item)], currentId + 1, now))
        /\ currentId' = currentId + 2
        /\ Log(Req("create", u, currentId, body.count, NoReason, "201",
                   FALSE, 0, NoSuchId))
    /\ UNCHANGED <<users, issuances, now, dlg, budget, procs>>

\* PATCH /api/items/:id
PatchItem(u, id, body) ==
    /\ CanRequest
    /\ LET got == getItem(id) IN
       IF got = <<>>
       THEN /\ Log(Req("edit", u, id, body.count, NoReason, "404", FALSE, 0,
                       NoSuchId))
            /\ UNCHANGED store
       ELSE LET item == updateItem(got[1], body, now) IN
            /\ items' = MapSet(items, id, item)
            /\ audits' = MapSet(audits, currentId,
                   createAudit([userId |-> u, action |-> "UPDATE",
                                details |-> UpdateDetails(item)], currentId, now))
            /\ currentId' = currentId + 1
            /\ Log(Req("edit", u, id, body.count, NoReason, "200", TRUE,
                       got[1].count, NoSuchId))
            /\ UNCHANGED <<users, issuances>>
    /\ UNCHANGED <<now, dlg, budget, procs>>

\* a variant of DeleteItem that hands the deleted item's id on to the audit
DeleteItem_FreeingId(u, id) ==
    /\ CanRequest
    /\ LET got == getItem(id) IN
       IF got = <<>>
       THEN /\ Log(Req("delete", u, id, 0, NoReason, "404", FALSE, 0, NoSuchId))
            /\ UNCHANGED store
       ELSE /\ items' = MapDelete(items, id)
            /\ audits' = MapSet(audits, id,
                   createAudit([userId |-> u, action |-> "DELETE",
                                details |-> DeleteDetails(got[1])], id, now))
            /\ Log(Req("delete", u, id, 0, NoReason, "200", TRUE, got[1].count,
                       NoSuchId))
            /\ UNCHANGED <<users, issuances, currentId>>
    /\ UNCHANGED <<now, dlg, budget, procs>>

\* DELETE /api/items/:id
DeleteItem(u, id) ==
    /\ CanRequest
    /\ LET got == getItem(id) IN
       IF got = <<>>
       THEN /\ Log(Req("delete", u, id, 0, NoReason, "404", FALSE, 0, NoSuchId))
            /\ UNCHANGED store
       ELSE /\ items' = MapDelete(items, id)
            /\ audits' = MapSet(audits, currentId,
                   createAudit([userId |-> u, action |-> "DELETE",
                                details |-> DeleteDetails(got[1])], currentId, now))
            /\ currentId' = currentId + 1
            /\ Log(Req("delete", u, id, 0, NoReason, "200", TRUE, got[1].count,
                       NoSuchId))
            /\ UNCHANGED <<users, issuances>>
    /\ UNCHANGED <<now, dlg, budget, procs>>

\* PATCH /api/items/:id/count, all but the dialog
CountRequest(u, id, count, reason) ==
    /\ CanRequest
    /\ LET got == getItem(id) IN
       IF ~updateCountSchemaOk(count)
       THEN \* parse throws inside the async handler
            /\ \E s \in ThrownOutcomes :
                   Log(Thrown(Req("count", u, id, count, reason, s, FALSE, 0,
                                  NoSuchId), "ZodError"))
            /\ UNCHANGED store
       ELSE IF got = <<>>
       THEN /\ Log(Req("count", u, id, count, reason, "404", FALSE, 0, NoSuchId))
            /\ UNCHANGED store
       ELSE /\ items' = MapSet(items, id, updateItemCount(got[1], count, now))
            /\ audits' = MapSet(audits, currentId,
                   createAudit([userId |-> u, action |-> "UPDATE",
                                details |-> CountDetails(got[1], count, reason)],
                               currentId, now))
            /\ currentId' = currentId + 1
            /\ Log(Req("count", u, id, count, reason, "200", TRUE, got[1].count,
                       NoSuchId))
            /\ UNCHANGED <<users, issuances>>
    /\ UNCHANGED <<now, budget, procs>>

PatchCount(u, id, count, reason) ==
    /\ CountRequest(u, id, count, reason)
    /\ UNCHANGED dlg

\* POST /api/issuances
PostIssuance(u, body) ==
    /\ CanRequest
    /\ LET issuanceData == insertIssuanceSchemaParse(body, u)
           issuance == createIssuance(issuanceData, currentId)
           got == getItem(issuanceData.itemId)
       IN
       /\ issuances' = MapSet(issuances, currentId, issuance)
       /\ IF got = <<>>
          THEN /\ currentId' = currentId + 1
               /\ Log(Req("issue", u, issuanceData.itemId, issuanceData.quantity,
                          NoReason, "404", FALSE, 0, currentId))
               /\ UNCHANGED <<items, audits>>
          ELSE /\ items' = MapSet(items, got[1].id,
                      updateItemCount(got[1],
                          IssueCount(got[1], issuanceData.quantity), now))
               /\ audits' = MapSet(audits, currentId + 1,
                      createAudit([userId |-> u, action |-> "ISSUE",
                                   details |-> IssueDetails(issuanceData.quantity,
                                                            got[1])],
                                  currentId + 1, now))
               /\ currentId' = currentId + 2
               /\ Log(Req("issue", u, issuanceData.itemId, issuanceData.quantity,
                          NoReason, "201", TRUE, got[1].count, currentId))
    /\ UNCHANGED <<users, now, dlg, budget, procs>>

\* POST /api/issuances/:id/return
PostReturn(u, id) ==
    /\ CanRequest
    /\ IF issuanceOf(id) = <<>>
       THEN \* updateIssuance throws inside the async handler
            /\ \E s \in ThrownOutcomes :
                   Log(Thrown(Req("return", u, id, 0, NoReason, s, FALSE, 0,
                                  NoSuchId), "Issuance not found"))
            /\ UNCHANGED store
       ELSE LET issuance == updateIssuance(issuanceOf(id)[1], now)
                got == getItem(issuance.itemId)
            IN
            /\ issuances' = MapSet(issuances, id, issuance)
            /\ IF got = <<>>
               THEN /\ Log(Req("return", u, id, issuance.quantity, NoReason,
                               "404", FALSE, 0, id))
                    /\ UNCHANGED <<items, audits, currentId>>
               ELSE /\ items' = MapSet(items, got[1].id,
                           updateItemCount(got[1],
                               ReturnCount(got[1], issuance), now))
                    /\ audits' = MapSet(audits, currentId,
                           createAudit([userId |-> u, action |-> "RETURN",
                                        details |-> ReturnDetails(issuance, got[1])],
                                       currentId, now))
                    /\ currentId' = currentId + 1
                    /\ Log(Req("return", u, id, issuance.quantity, NoReason,
                               "200", TRUE, got[1].count, id))
            /\ UNCHANGED users
    /\ UNCHANGED <<now, dlg, budget, procs>>

----------------------------------------------------------------------------
(* client: inventory-table.tsx and update-count-dialog.tsx *)

\* the row's button: setSelectedItem(item) mounts the dialog, whose
\* expectedCount is useState(item.count)
DialogOpen(id) ==
    /\ ~dlg.open
    /\ id \in DOMAIN items
    /\ dlg' = [open |-> TRUE, item |-> id, expectedCount |-> items[id].count,
               showDiscrepancy |-> FALSE]
    /\ UNCHANGED <<store, now, last, prev, budget, procs>>

\* handleSubmit(data); the reason field is on screen only while the
\* discrepancy is, and the form's resolver lets no negative count through
DialogSubmit(u, count, reason) ==
    /\ dlg.open
    /\ CanRequest
    /\ updateCountSchemaOk(count)
    /\ dlg.showDiscrepancy \/ reason = NoReason
    /\ IF ~dlg.showDiscrepancy /\ count # dlg.expectedCount
       THEN \* the discrepancy is shown; nothing is sent
            /\ dlg' = [dlg EXCEPT !.showDiscrepancy = TRUE]
            /\ Log(Req("count", u, dlg.item, count, reason, "Discrepancy",
                       FALSE, dlg.expectedCount, NoSuchId))
            /\ UNCHANGED <<store, now, budget, procs>>
       ELSE IF dlg.showDiscrepancy /\ (reason = NoReason \/ reason = "")
       THEN \* form.setError("reason"): the discrepancy stays on screen and
            \* nothing is sent
            /\ Log(Req("count", u, dlg.item, count, reason, "Discrepancy",
                       FALSE, dlg.expectedCount, NoSuchId))
            /\ UNCHANGED <<store, now, dlg, budget, procs>>
       ELSE \* updateMutation.mutate(data); onSuccess closes the dialog
            /\ CountRequest(u, dlg.item, count, reason)
            /\ dlg' = IF last'.status = "200" THEN NoDialog ELSE dlg

\* the "Verify Count" button
DialogVerify ==
    /\ dlg.open
    /\ dlg.showDiscrepancy
    /\ dlg' = [dlg EXCEPT !.showDiscrepancy = FALSE]
    /\ UNCHANGED <<store, now, last, prev, budget, procs>>

\* onOpenChange(false)
DialogClose ==
    /\ dlg.open
    /\ dlg' = NoDialog
    /\ UNCHANGED <<store, now, last, prev, budget, procs>>

----------------------------------------------------------------------------
(* POST /api/issuances, one step per stretch between two awaits *)

\* parse, then storage.createIssuance(...) up to the await
IssueStart(p, u, body) ==
    /\ procs[p].pc = "idle"
    /\ LET issuanceData == insertIssuanceSchemaParse(body, u) IN
        /\ issuances' = MapSet(issuances, currentId,
                               createIssuance(issuanceData, currentId))
        /\ currentId' = currentId + 1
        /\ procs' = [procs EXCEPT ![p] =
               [pc |-> "getItem", user |-> u, itemId |-> issuanceData.itemId,
                quantity |-> issuanceData.quantity, iss |-> currentId,
                item |-> <<>>, status |-> NoResponse]]
    /\ UNCHANGED <<users, items, audits, now, dlg, last, prev, budget>>

\* const item = await storage.getItem(issuanceData.itemId)
IssueGetItem(p) ==
    /\ procs[p].pc = "getItem"
    /\ procs' = [procs EXCEPT ![p].item = getItem(procs[p].itemId),
                              ![p].pc = "update"]
    /\ UNCHANGED <<store, now, dlg, last, prev, budget>>

\* if (!item) return 404; await storage.updateItemCount(item.id, item.count - q)
IssueUpdate(p) ==
    /\ procs[p].pc = "update"
    /\ LET item == procs[p].item IN
       IF item = <<>>
       THEN /\ procs' = [procs EXCEPT ![p].pc = "done", ![p].status = "404"]
            /\ UNCHANGED items
       ELSE IF getItem(item[1].id) = <<>>
       THEN \* updateItemCount throws
            /\ \E s \in ThrownOutcomes :
                   procs' = [procs EXCEPT ![p].pc = "done", ![p].status = s]
            /\ UNCHANGED items
       ELSE /\ items' = MapSet(items, item[1].id,
                   updateItemCount(items[item[1].id],
                       IssueCount(item[1], procs[p].quantity), now))
            /\ procs' = [procs EXCEPT ![p].pc = "audit"]
    /\ UNCHANGED <<users, issuances, audits, currentId, now, dlg, last, prev,
                   budget>>

\* await storage.createAudit(...)
IssueAudit(p) ==
    /\ procs[p].pc = "audit"
    /\ audits' = MapSet(audits, currentId,
           createAudit([userId |-> procs[p].user, action |-> "ISSUE",
                        details |-> IssueDetails(procs[p].quantity,
                                                 procs[p].item[1])],
                       currentId, now))
    /\ currentId' = currentId + 1
    /\ procs' = [procs EXCEPT ![p].pc = "respond"]
    /\ UNCHANGED <<users, items, issuances, now, dlg, last, prev, budget>>

\* res.status(201).json(issuance)
IssueRespond(p) ==
    /\ procs[p].pc = "respond"
    /\ procs' = [procs EXCEPT ![p].pc = "done", ![p].status = "201"]
    /\ UNCHANGED <<store, now, dlg, last, prev, budget>>

----------------------------------------------------------------------------
(* POST /api/issuances/:id/return, one step per stretch between two awaits *)

\* await storage.updateIssuance(parseInt(req.params.id), new Date())
ReturnStart(p, u, id) ==
    /\ procs[p].pc = "idle"
    /\ IF issuanceOf(id) = <<>>
       THEN \* updateIssuance throws
            /\ \E s \in ThrownOutcomes :
                   procs' = [procs EXCEPT ![p].pc = "returned", ![p].user = u,
                                          ![p].iss = id, ![p].status = s]
            /\ UNCHANGED issuances
       ELSE LET issuance == updateIssuance(issuanceOf(id)[1], now) IN
            /\ issuances' = MapSet(issuances, id, issuance)
            /\ procs' = [procs EXCEPT ![p] =
                   [pc |-> "retGetItem", user |-> u, itemId |-> issuance.itemId,
                    quantity |-> issuance.quantity, iss |-> id,
                    item |-> <<>>, status |-> NoResponse]]
    /\ UNCHANGED <<users, items, audits, currentId, now, dlg, last, prev,
                   budget>>

\* const item = await storage.getItem(issuance.itemId)
ReturnGetItem(p) ==
    /\ procs[p].pc = "retGetItem"
    /\ procs' = [procs EXCEPT ![p].item = getItem(procs[p].itemId),
                              ![p].pc = "retUpdate"]
    /\ UNCHANGED <<store, now, dlg, last, prev, budget>>

\* if (!item) return 404;
\* await storage.updateItemCount(item.id, item.count + issuance.quantity)
ReturnUpdate(p) ==
    /\ procs[p].pc = "retUpdate"
    /\ LET item == procs[p].item IN
       IF item = <<>>
       THEN /\ procs' = [procs EXCEPT ![p].pc = "returned",
                                      ![p].status = "404"]
            /\ UNCHANGED items
       ELSE IF getItem(item[1].id) = <<>>
       THEN \* updateItemCount throws
            /\ \E s \in ThrownOutcomes :
                   procs' = [procs EXCEPT ![p].pc = "returned",
                                          ![p].status = s]
            /\ UNCHANGED items
       ELSE /\ items' = MapSet(items, item[1].id,
                   updateItemCount(items[item[1].id],
                       ReturnCount(item[1], issuances[procs[p].iss]), now))
            /\ procs' = [procs EXCEPT ![p].pc = "retAudit"]
    /\ UNCHANGED <<users, issuances, audits, currentId, now, dlg, last, prev,
                   budget>>

\* await storage.createAudit(...)
ReturnAudit(p) ==
    /\ procs[p].pc = "retAudit"
    /\ audits' = MapSet(audits, currentId,
           createAudit([userId |-> procs[p].user, action |-> "RETURN",
                        details |-> ReturnDetails(issuances[procs[p].iss],
                                                  procs[p].item[1])],
                       currentId, now))
    /\ currentId' = currentId + 1
    /\ procs' = [procs EXCEPT ![p].pc = "retRespond"]
    /\ UNCHANGED <<users, items, issuances, now, dlg, last, prev, budget>>

\* res.json(issuance)
ReturnRespond(p) ==
    /\ procs[p].pc = "retRespond"
    /\ procs' = [procs EXCEPT ![p].pc = "returned", ![p].status = "200"]
    /\ UNCHANGED <<store, now, dlg, last, prev, budget>>

----------------------------------------------------------------------------
Next ==
    \/ Tick
    \/ \E n \in Usernames : Register(n)
    \/ \E u \in DOMAIN users, b \in ItemBodies : PostItem(u, b)
    \/ \E u \in DOMAIN users, id \in ItemIdInputs, b \in ItemBodies :
           PatchItem(u, id, b)
    \/ \E u \in DOMAIN users, id \in ItemIdInputs : DeleteItem(u, id)
    \/ \E u \in DOMAIN users, id \in ItemIdInputs, b \in CountBodies :
           PatchCount(u, id, b[1], b[2])
    \/ \E u \in DOMAIN users, b \in IssueBodies : PostIssuance(u, b)
    \/ \E u \in DOMAIN users, id \in IssuanceIdInputs : PostReturn(u, id)

Spec == Init /\ [][Next]_vars

\* issue and return only
InitIR ==
    /\ users = <<>>
    /\ items = [id \in DefaultIds |-> createItem(DefaultItems[id], id, 0)]
    /\ issuances = <<>>
    /\ audits = <<>>
    /\ currentId = FirstId + Len(DefaultItems)
    /\ now = 0
    /\ dlg = NoDialog
    /\ last = NoReq
    /\ prev = NoReq
    /\ budget = MaxReqs + 1
    /\ procs = [p \in 1..NProcs |-> IdleProc]

NextIR ==
    \/ Tick
    \/ \E n \in Usernames : Register(n)
    \/ \E u \in DOMAIN users, b \in IssueBodies : PostIssuance(u, b)
    \/ \E u \in DOMAIN users, id \in IssuanceIdInputs : PostReturn(u, id)

SpecIR == InitIR /\ [][NextIR]_vars

\* issues and returns, while items are deleted
NextDelete ==
    \/ \E n \in Usernames : Register(n)
    \/ \E u \in DOMAIN users, b \in IssueBodies : PostIssuance(u, b)
    \/ \E u \in DOMAIN users, id \in ItemIdInputs : DeleteItem(u, id)
    \/ \E u \in DOMAIN users, id \in IssuanceIdInputs : PostReturn(u, id)

SpecDelete == InitIR /\ [][NextDelete]_vars

\* count updates made through the dialog, while issues go on
NextDialog ==
    \/ \E n \in Usernames : Register(n)
    \/ \E id \in DefaultIds : DialogOpen(id)
    \/ \E u \in DOMAIN users, b \in CountBodies : DialogSubmit(u, b[1], b[2])
    \/ DialogVerify
    \/ DialogClose
    \/ \E u \in DOMAIN users, b \in IssueBodies : PostIssuance(u, b)

SpecDialog == Init /\ [][NextDialog]_vars

\* issue handlers interleaved at their awaits
NextConc ==
    \/ \E n \in Usernames : Register(n)
    \/ \E p \in 1..NProcs, u \in DOMAIN users, b \in IssueBodies :
           IssueStart(p, u, b)
    \/ \E p \in 1..NProcs : IssueGetItem(p)
    \/ \E p \in 1..NProcs : IssueUpdate(p)
    \/ \E p \in 1..NProcs : IssueAudit(p)
    \/ \E p \in 1..NProcs : IssueRespond(p)

SpecConc == Init /\ [][NextConc]_vars

\* one issue runs to completion; then issue and return handlers interleave
\* at their awaits
NextConcIR ==
    \/ \E n \in Usernames : Register(n)
    \/ \E u \in DOMAIN users, b \in IssueBodies :
           /\ last.seq = 0
           /\ \A p \in 1..NProcs : procs[p].pc = "idle"
           /\ PostIssuance(u, b)
    \/ \E p \in 1..NProcs, u \in DOMAIN users, b \in IssueBodies :
           IssueStart(p, u, b)
    \/ \E p \in 1..NProcs : IssueGetItem(p)
    \/ \E p \in 1..NProcs : IssueUpdate(p)
    \/ \E p \in 1..NProcs : IssueAudit(p)
    \/ \E p \in 1..NProcs : IssueRespond(p)
    \/ \E p \in 1..NProcs, u \in DOMAIN users, id \in IssuanceIdInputs :
           ReturnStart(p, u, id)
    \/ \E p \in 1..NProcs : ReturnGetItem(p)
    \/ \E p \in 1..NProcs : ReturnUpdate(p)
    \/ \E p \in 1..NProcs : ReturnAudit(p)
    \/ \E p \in 1..NProcs : ReturnRespond(p)

SpecConcIR == Init /\ [][NextConcIR]_vars

\* the statistics: a larger inventory, issues of one unit, returns, an edit
\* and a count update
InitStats ==
    /\ users = <<>>
    /\ items = [id \in 1..Len(StatsItems) |-> createItem(StatsItems[id], id, 0)]
    /\ issuances = <<>>
    /\ audits = <<>>
    /\ currentId = FirstId + Len(StatsItems)
    /\ now = 0
    /\ dlg = NoDialog
    /\ last = NoReq
    /\ prev = NoReq
    /\ budget = MaxReqs + 2
    /\ procs = [p \in 1..NProcs |-> IdleProc]

\* item, quantity, status and returnDate of an issue
StatsIssueInputs == { <<FirstId, 1, "Temporary", 0>>,
                      <<Len(StatsItems), 1, "Permanent", NullDate>> }

NextStats ==
    \/ TickStats
    \/ \E n \in Usernames : Register(n)
    \/ \E u \in DOMAIN users, b \in IssueBodies :
           /\ <<b.itemId, b.quantity, b.status, b.returnDate>>
                  \in StatsIssueInputs
           /\ PostIssuance(u, b)
    \/ \E u \in DOMAIN users, id \in DOMAIN issuances : PostReturn(u, id)
    \/ \E u \in DOMAIN users, b \in ItemBodies : PatchItem(u, FirstId, b)
    \/ \E u \in DOMAIN users :
           PatchCount(u, Len(StatsItems), 2, "Miscount corrected")

SpecStats == InitStats /\ [][NextStats]_vars

----------------------------------------------------------------------------
(* every route of routes.ts, from its first line; the session of a request *)
(* is the id of its user, NoSuchId when the request has none               *)

\* a variant of isAuthenticated that lets every request through
isAuthenticated_Always(u) == TRUE

\* req.isAuthenticated(): the session names a user that getUser finds
isAuthenticated(u) == u \in DOMAIN users

\* if (!req.isAuthenticated()) return res.sendStatus(401), then the handler
Route(u, op, handler) ==
    IF isAuthenticated(u) THEN handler
    ELSE /\ CanRequest
         /\ Log(Req(op, u, NoSuchId, 0, NoReason, "401", FALSE, 0, NoSuchId))
         /\ UNCHANGED <<store, now, dlg, budget, procs>>

\* GET /api/items, /api/issuances, /api/audits: found tells that the
\* response carries the list, arg its length
GetList(u, op, list) ==
    /\ CanRequest
    /\ Log(Req(op, u, NoSuchId, Len(list), NoReason, "200", TRUE, 0, NoSuchId))
    /\ UNCHANGED <<store, now, dlg, budget, procs>>

Sessions == DOMAIN users \cup {NoSuchId}

NextAuth ==
    \/ Tick
    \/ \E n \in Usernames : Register(n)
    \/ \E u \in Sessions : Route(u, "getItems", GetList(u, "getItems", getItems))
    \/ \E u \in Sessions, b \in ItemBodies : Route(u, "create", PostItem(u, b))
    \/ \E u \in Sessions, b \in ItemBodies :
           Route(u, "edit", PatchItem(u, FirstId, b))
    \/ \E u \in Sessions : Route(u, "delete", DeleteItem(u, FirstId))
    \/ \E u \in Sessions :
           Route(u, "count", PatchCount(u, FirstId, 2, "Miscount corrected"))
    \/ \E u \in Sessions, b \in IssueBodies :
           /\ <<b.itemId, b.quantity, b.status, b.returnDate>>
                  \in StatsIssueInputs
           /\ Route(u, "issue", PostIssuance(u, b))
    \/ \E u \in Sessions :
           Route(u, "getIssuances", GetList(u, "getIssuances", getIssuances))
    \/ \E u \in Sessions, id \in IssuanceIdInputs :
           Route(u, "return", PostReturn(u, id))
    \/ \E u \in Sessions : Route(u, "getAudits", GetList(u, "getAudits", getAudits))

SpecAuth == Init /\ [][NextAuth]_vars

----------------------------------------------------------------------------
(* POST /api/register, one step per stretch between two awaits; the await  *)
(* of hashPassword waits for scrypt, so that other requests run meanwhile  *)

RegisterNames == {"ama", "kofi"}

RegisterProc(pc, username, user, status) ==
    [IdleProc EXCEPT !.pc = pc, !.user = user, !.status = status]
        @@ [username |-> username, existingUser |-> {}]

\* const existingUser = await storage.getUserByUsername(req.body.username)
RegisterStart(p, username) ==
    /\ procs[p].pc = "idle"
    /\ procs' = [procs EXCEPT ![p] =
           [RegisterProc("checked", username, NoSuchId, NoResponse)
               EXCEPT !.existingUser = getUserByUsername(username)]]
    /\ UNCHANGED <<store, now, dlg, last, prev, budget>>

\* if (existingUser) return res.status(400).send("Username already exists");
\* else hashPassword(req.body.password) is called and awaited
RegisterCheck(p) ==
    /\ procs[p].pc = "checked"
    /\ procs' = [procs EXCEPT ![p] =
           IF procs[p].existingUser # {}
           THEN RegisterProc("done", procs[p].username, NoSuchId, "400")
           ELSE RegisterProc("hashPassword", procs[p].username, NoSuchId,
                             NoResponse)]
    /\ UNCHANGED <<store, now, dlg, last, prev, budget>>

\* the hash is there: const user = await storage.createUser({...req.body,
\* password})
RegisterCreate(p) ==
    /\ procs[p].pc = "hashPassword"
    /\ users' = MapSet(users, currentId,
           createUser([username |-> procs[p].username,
                       department |-> "Digital"], currentId))
    /\ currentId' = currentId + 1
    /\ procs' = [procs EXCEPT ![p] =
           RegisterProc("login", procs[p].username, currentId, NoResponse)]
    /\ UNCHANGED <<items, issuances, audits, now, dlg, last, prev, budget>>

\* req.login(user, ...): res.status(201).json(user)
RegisterRespond(p) ==
    /\ procs[p].pc = "login"
    /\ procs' = [procs EXCEPT ![p] =
           RegisterProc("done", procs[p].username, procs[p].user, "201")]
    /\ UNCHANGED <<store, now, dlg, last, prev, budget>>

NextRegister ==
    \/ \E p \in 1..NProcs, n \in RegisterNames : RegisterStart(p, n)
    \/ \E p \in 1..NProcs : RegisterCheck(p)
    \/ \E p \in 1..NProcs : RegisterCreate(p)
    \/ \E p \in 1..NProcs : RegisterRespond(p)

SpecRegister == Init /\ [][NextRegister]_vars

----------------------------------------------------------------------------
(* Properties *)

\* this step is a request of kind op
ReqStep(op) == last'.seq = last.seq + 1 /\ last'.op = op

\* the quantities of the open issuances of item id
RECURSIVE SumOpen(_, _)
SumOpen(S, id) ==
    IF S = {} THEN 0
    ELSE LET i == CHOOSE x \in S : TRUE IN
         (IF issuances[i].itemId = id /\ issuances[i].returnedDate = NullDate
          THEN issuances[i].quantity ELSE 0) + SumOpen(S \ {i}, id)

\* the quantities asked by the handlers in S
RECURSIVE SumQuantity(_)
SumQuantity(S) ==
    IF S = {} THEN 0
    ELSE LET p == CHOOSE x \in S : TRUE IN
         procs[p].quantity + SumQuantity(S \ {p})

\* part is one of the parts of an audit's details
States(details, part) == \E k \in 1..Len(details) : details[k] = part

\* every issue so far asked for a positive quantity
PositiveQuantities == \A i \in DOMAIN issuances : issuances[i].quantity > 0

\* C1: in every reachable state every item's count is non-negative.
C1_CountNonNegative == \A id \in DOMAIN items : items[id].count >= 0

\* C2: an issue request whose quantity exceeds the item's current count
\* fails with InsufficientStock and changes nothing: the items (count and
\* last-updated), the issuance records and the audit entries stay as they were.
C2_InsufficientStockRejected ==
    [][ (/\ ReqStep("issue")
         /\ last'.id \in DOMAIN items
         /\ last'.arg > items[last'.id].count)
        => (/\ last'.status = "InsufficientStock"
            /\ UNCHANGED <<items, issuances, audits>>) ]_vars

C4_SecondReturnRejected ==
    [][ (/\ ReqStep("return")
         /\ last'.id \in DOMAIN issuances
         /\ issuances[last'.id].itemId \in DOMAIN items
         /\ PositiveQuantities)
        => LET i == issuances[last'.id] IN
           IF i.returnedDate = NullDate
           THEN /\ last'.status = "200"
                /\ items'[i.itemId].count = items[i.itemId].count + i.quantity
                /\ issuances'[last'.id].returnedDate = now
           ELSE /\ last'.status = "AlreadyReturned"
                /\ UNCHANGED <<items, issuances>> ]_vars

\* C5: in a run of issues (of positive quantities) and returns only, each
\* item's count plus the quantities of its open issuances equals the item's
\* initial count.
C5_CountIsFoldOfHistory ==
    PositiveQuantities =>
        \A id \in DOMAIN items :
            items[id].count + SumOpen(DOMAIN issuances, id)
                = DefaultItems[id].count

\* C6: after a successful issue the issuance list shows the new record open;
\* when the next request is the return of that record, the return succeeds,
\* the item's count is back at its value before the issue, and the record is
\* closed.
C6_IssueThenReturnRestoresCount ==
    /\ (last.op = "issue" /\ last.status = "201")
       => (/\ last.iss \in DOMAIN issuances
           /\ issuances[last.iss].returnedDate = NullDate
           /\ items[last.id].count = last.pre - last.arg)
    /\ (/\ prev.op = "issue" /\ prev.status = "201"
        /\ last.op = "return" /\ last.id = prev.iss)
       => (/\ last.status = "200"
           /\ items[prev.id].count = prev.pre
           /\ issuances[prev.iss].returnedDate # NullDate)

\* C6: an issue of a positive quantity followed at once by its return
C6_Witness ==
    /\ prev.op = "issue" /\ prev.status = "201" /\ prev.arg > 0
    /\ last.op = "return" /\ last.id = prev.iss /\ last.status = "200"

\* C7 (after issues of positive quantities):
\* a count update whose count differs from the item's current count and
\* that carries no reason yields the Discrepancy outcome and changes neither
\* the items (count and last-updated) nor the audit entries.
C7_NoReasonNoMutation ==
    [][ (/\ ReqStep("count")
         /\ last'.reason = NoReason
         /\ last'.id \in DOMAIN items
         /\ last'.arg # items[last'.id].count
         /\ PositiveQuantities)
        => (/\ last'.status = "Discrepancy"
            /\ UNCHANGED <<items, audits>>) ]_vars

\* C8: a count update (count >= 0) that carries a non-empty reason and whose
\* count differs from the item's current count sets the item's count to it
\* and adds exactly one audit entry, whose details state the count the item
\* had just before, the new count and the reason.
C8_ReasonedUpdateAudited ==
    [][ (/\ ReqStep("count")
         /\ last'.reason # NoReason /\ last'.reason # ""
         /\ updateCountSchemaOk(last'.arg)
         /\ last'.id \in DOMAIN items
         /\ last'.arg # items[last'.id].count)
        => (/\ last'.status = "200"
            /\ items'[last'.id].count = last'.arg
            /\ Cardinality(DOMAIN audits' \ DOMAIN audits) = 1
            /\ \A a \in DOMAIN audits : audits'[a] = audits[a]
            /\ \A a \in DOMAIN audits' \ DOMAIN audits :
                   /\ audits'[a].userId = last'.user
                   /\ States(audits'[a].details, ToString(items[last'.id].count))
                   /\ States(audits'[a].details, ToString(last'.arg))
                   /\ States(audits'[a].details, last'.reason)) ]_vars

\* C8: a count update with a reason has changed an item's count
C8_Witness ==
    /\ last.op = "count" /\ last.status = "200"
    /\ last.reason = "Miscount corrected"
    /\ last.arg # last.pre
    /\ items[last.id].count = last.arg

\* C9: a count update whose count equals the item's current count and that
\* carries no reason adds no issuance record and no audit entry and leaves
\* the item's last-updated timestamp as it was.
C9_MatchingCountIsNoOp ==
    [][ (/\ ReqStep("count")
         /\ last'.reason = NoReason
         /\ last'.id \in DOMAIN items
         /\ last'.arg = items[last'.id].count)
        => (/\ UNCHANGED <<issuances, audits>>
            /\ items'[last'.id].lastUpdated = items[last'.id].lastUpdated) ]_vars

\* C10: an issue request (of a positive quantity) naming an item id that does not exist is answered
\* 404 Item not found and leaves items, issuance records and audit entries
\* unchanged.
C10_IssueOfMissingItemStoresNothing ==
    [][ (ReqStep("issue") /\ last'.id \notin DOMAIN items /\ last'.arg > 0)
        => (/\ last'.status = "404"
            /\ UNCHANGED <<items, issuances, audits>>) ]_vars

\* C11 (issues of positive quantities on items of the initial inventory):
\* the return of an open issuance is atomic: either it succeeds in full (the
\* issuance gets a returnedDate, its item's count rises by the issuance
\* quantity, one audit entry is added) or it reports an error and changes
\* nothing; a return whose item has since been deleted does not leave the
\* issuance closed while no count was raised.
C11_ReturnIsAtomic ==
    [][ (/\ ReqStep("return")
         /\ last'.id \in DOMAIN issuances
         /\ issuances[last'.id].returnedDate = NullDate
         /\ issuances[last'.id].itemId \in DefaultIds
         /\ PositiveQuantities)
        => LET i == issuances[last'.id] IN
           \/ /\ last'.status = "200"
              /\ issuances'[last'.id].returnedDate # NullDate
              /\ i.itemId \in DOMAIN items
              /\ items'[i.itemId].count = items[i.itemId].count + i.quantity
              /\ Cardinality(DOMAIN audits' \ DOMAIN audits) = 1
           \/ /\ last'.status # "200"
              /\ UNCHANGED <<items, issuances, audits>> ]_vars

C13_ClosedIsTerminal ==
    [][ /\ \A i \in DOMAIN issuances :
               issuances[i].returnedDate # NullDate
               => (/\ i \in DOMAIN issuances'
                   /\ issuances'[i].returnedDate # NullDate)
        /\ \A i \in DOMAIN issuances' \ DOMAIN issuances :
               issuances'[i].returnedDate = NullDate ]_vars

\* C13: a closed record has been sent a second return request
C13_Witness ==
    /\ prev.op = "return" /\ prev.status = "200"
    /\ last.op = "return" /\ last.id = prev.id
    /\ issuances[last.id].returnedDate # NullDate

\* C14 (issues of positive quantities): audit entries are one-to-one with
\* state changes: a request that changes an item or an issuance record adds
\* exactly one audit entry, attributed to the acting user, on its error
\* paths as on its success path.
C14_EveryChangeAudited ==
    [][ (/\ last'.seq = last.seq + 1
         /\ items' # items \/ issuances' # issuances
         /\ \A i \in DOMAIN issuances' : issuances'[i].quantity > 0)
        => (/\ Cardinality(DOMAIN audits' \ DOMAIN audits) = 1
            /\ \A a \in DOMAIN audits' \ DOMAIN audits :
                   audits'[a].userId = last'.user) ]_vars

\* C15: the audit trail is append-only: no step removes an audit entry or
\* changes its userId, action, details or timestamp, and the list the audit
\* query returns after a step is the list it returned before the step with
\* the new entries appended at its end.
C15_AuditsAppendOnly ==
    [][ /\ \A a \in DOMAIN audits :
               /\ a \in DOMAIN audits'
               /\ audits'[a].userId = audits[a].userId
               /\ audits'[a].action = audits[a].action
               /\ audits'[a].details = audits[a].details
               /\ audits'[a].timestamp = audits[a].timestamp
        /\ LET before == getAudits
               after  == getAudits'
           IN /\ Len(after) >= Len(before)
              /\ SubSeq(after, 1, Len(before)) = before ]_vars

\* C15: an audit entry has been appended to a list that already had one
C15_Witness ==
    /\ Len(getAudits) = 2
    /\ last.status \in {"200", "201"} /\ prev.status \in {"200", "201"}
    /\ getAudits[1].id < getAudits[2].id

\* C16: editing an item replaces only its name, category and sub-category
\* and updates last-updated: the item's count after the edit equals its
\* count before the edit.
C16_EditKeepsCount ==
    [][ (ReqStep("edit") /\ last'.id \in DOMAIN items)
        => (/\ last'.id \in DOMAIN items'
            /\ items'[last'.id].count = items[last'.id].count
            /\ items'[last'.id].id = items[last'.id].id
            /\ items'[last'.id].lastUpdated = now) ]_vars

\* C17 (requests that name an item that exists): an issue request whose
\* quantity is zero or negative is rejected (it is not answered 201) and
\* changes nothing; so every stored issuance record has a quantity above
\* zero and no issue raises an item's count.
C17_NonPositiveQuantityRejected ==
    [][ (ReqStep("issue") /\ last'.id \in DOMAIN items)
        => (/\ last'.arg <= 0
               => (/\ last'.status # "201"
                   /\ UNCHANGED <<items, issuances, audits>>)
            /\ \A i \in DOMAIN issuances' : issuances'[i].quantity > 0
            /\ \A id \in DOMAIN items :
                   id \in DOMAIN items' /\ items'[id].count <= items[id].count)
      ]_vars

\* C18 (issues of positive quantities on items of the initial inventory):
\* every stored issuance record with status Temporary has an expected
\* returnDate; a Temporary issue request without one creates no record.
C18_TemporaryHasReturnDate ==
    \A i \in DOMAIN issuances :
        (/\ issuances[i].status = "Temporary"
         /\ issuances[i].quantity > 0
         /\ issuances[i].itemId \in DefaultIds)
        => issuances[i].returnDate # NullDate

\* C19: a return request for an issuance id that does not exist fails with
\* the error "Issuance not found" (it is not answered as a success) and
\* leaves items, issuance records and audit entries unchanged.
C19_ReturnOfUnknownIssuanceFails ==
    [][ (ReqStep("return") /\ last'.id \notin DOMAIN issuances)
        => (/\ last'.error = "Issuance not found"
            /\ last'.status \notin {"200", "201"}
            /\ UNCHANGED <<items, issuances, audits>>) ]_vars

\* C19: after a successful issue, a return has named an id that no issuance
\* has
C19_Witness ==
    /\ prev.op = "issue" /\ prev.status = "201"
    /\ last.op = "return" /\ last.id \notin DOMAIN issuances
    /\ last.error = "Issuance not found"
    /\ issuances[prev.iss].returnedDate = NullDate

\* C20: every request is answered: a request whose handler has ended has a
\* response, and one whose handler threw (a body that does not pass
\* validation, an issuance that is not found) has an error response; none
\* is left without a response because its handler threw.
C20_EveryRequestAnswered ==
    last.seq > 0
    => (/\ last.status # NoResponse
        /\ last.error # "" => last.status \notin {"200", "201"})

\* C21 (issues of positive quantities):
\* deleting an item tombstones it: after a successful delete of an
\* item that issuance records reference, the item is gone from the item
\* list but storage still holds its record for those issuances to be joined
\* to, and no issuance record was removed.
C21_DeleteKeepsRecord ==
    [][ (/\ ReqStep("delete") /\ last'.status = "200"
         /\ \E i \in DOMAIN issuances : issuances[i].itemId = last'.id
         /\ PositiveQuantities)
        => (/\ \A k \in 1..Len(getItems') : getItems'[k].id # last'.id
            /\ UNCHANGED issuances
            /\ \A i \in DOMAIN issuances' :
                   issuances'[i].itemId = last'.id
                   => last'.id \in DOMAIN items') ]_vars

\* C22: at any time now, an issuance is in the overdue set if and only if
\* its status is Temporary, it is open (returnedDate null) and now is later
\* than the expected returnDate it has; so an issuance that has been
\* returned is not in the overdue set.
C22_OverdueIffLateAndOpen ==
    \A i \in DOMAIN issuances :
        (\E k \in 1..Len(overdueItems) : overdueItems[k].id = i)
        <=> (/\ issuances[i].status = "Temporary"
             /\ issuances[i].returnedDate = NullDate
             /\ issuances[i].returnDate # NullDate
             /\ now > issuances[i].returnDate)

\* C22: a Temporary issuance was returned after its returnDate and is not
\* in the overdue set
C22_Witness ==
    /\ last.op = "return" /\ last.status = "200"
    /\ issuances[last.id].status = "Temporary"
    /\ issuances[last.id].returnDate # NullDate
    /\ issuances[last.id].returnedDate > issuances[last.id].returnDate
    /\ \A k \in 1..Len(overdueItems) : overdueItems[k].id # last.id

\* C23: the reported discrepancy count is the number of count adjustments
\* forced with a reason: a count update that carries a reason and whose
\* count differs from the item's count raises it by one, so that after k
\* such updates the reported count is k.
C23_DiscrepancyCountsHardUpdates ==
    [][ (/\ ReqStep("count") /\ last'.status = "200"
         /\ last'.reason # NoReason /\ last'.reason # ""
         /\ last'.arg # items[last'.id].count)
        => Len(discrepancyAudits') = Len(discrepancyAudits) + 1 ]_vars

\* C24: the item-frequency list gives, for each item, the number of
\* issuance records that reference it, ordered by that number descending
\* with ties broken by item id ascending, and cut to the top N entries, in
\* every reachable state (also after count updates and edits have stored
\* items again).
C24_ItemFrequencyOrder ==
    LET freq(id) == Cardinality({i \in DOMAIN issuances :
                                    issuances[i].itemId = id})
        before(a, b) == \/ freq(a) > freq(b)
                        \/ freq(a) = freq(b) /\ a < b
        place(id) == 1 + Cardinality({a \in DOMAIN items : before(a, id)})
        n == Cardinality(DOMAIN items)
        shown == itemFrequency
    IN /\ Len(shown) = IF n < TopN THEN n ELSE TopN
       /\ \A id \in DOMAIN items :
              place(id) <= TopN
              => shown[place(id)] =
                     [name |-> items[id].name, count |-> freq(id)]

\* C24: more than N items, the first two of the list tied above zero, after
\* an edit of the first and a count update
C24_Witness ==
    /\ Cardinality(DOMAIN items) > TopN
    /\ Len(itemFrequency) = TopN
    /\ itemFrequency[1].count > 0
    /\ itemFrequency[1].count = itemFrequency[2].count
    /\ itemFrequency[1].name = "Pendrive"
    /\ last.op = "count" /\ last.status = "200"

\* the Temporary issuances of item id that have a returnedDate
Held(id) ==
    {i \in DOMAIN issuances : /\ issuances[i].itemId = id
                              /\ issuances[i].status = "Temporary"
                              /\ issuances[i].returnedDate # NullDate}

\* the whole days the issuances in S were held, summed
RECURSIVE SumDays(_)
SumDays(S) ==
    IF S = {} THEN 0
    ELSE LET i == CHOOSE x \in S : TRUE IN
         (issuances[i].returnedDate - issuances[i].issueDate) \div DayTicks
             + SumDays(S \ {i})

\* C25: an item is in the average-hold-duration list if and only if it has
\* a Temporary issuance with a returnedDate, and its value is the mean,
\* rounded to the nearest integer, of the whole days between issueDate and
\* returnedDate of exactly those issuances; an item with none is left out,
\* not listed with zero.
C25_AverageHoldDuration ==
    LET shown == averageBorrowDuration
        sampled == {id \in DOMAIN items : Held(id) # {}}
    IN /\ Len(shown) = Cardinality(sampled)
       /\ \A id \in sampled :
              \E k \in 1..Len(shown) :
                  /\ shown[k].name = items[id].name
                  /\ LET n == Cardinality(Held(id))
                         off == 2 * (n * shown[k].days - SumDays(Held(id)))
                     IN off <= n /\ 0 - off <= n

\* C25: an item has two samples, one of a whole day and one of less, and is
\* the one item listed, with their mean rounded
C25_Witness ==
    /\ \E id \in DOMAIN items :
           /\ Cardinality(Held(id)) = 2
           /\ SumDays(Held(id)) = 1
    /\ Len(averageBorrowDuration) = 1
    /\ averageBorrowDuration[1].days = 1

\* the inventory a new MemStorage builds at time t
InitialItems(t) == [id \in DefaultIds |-> createItem(DefaultItems[id], id, t)]

\* the items after the request r, made at time t, when they were its before:
\* what the handler of r does to the items on its success path
ReplayOp(its, r, t) ==
    LET body == CHOOSE b \in ItemBodies : b.count = r.arg IN
    IF r.status \notin {"200", "201"} THEN its
    ELSE IF r.op = "create"
    THEN MapSet(its, r.id, createItem(body, r.id, t))
    ELSE IF r.op = "edit"
    THEN MapSet(its, r.id, updateItem(its[r.id], body, t))
    ELSE IF r.op = "delete" THEN MapDelete(its, r.id)
    ELSE IF r.op = "count"
    THEN MapSet(its, r.id, updateItemCount(its[r.id], r.arg, t))
    ELSE IF r.op = "issue"
    THEN MapSet(its, r.id,
             updateItemCount(its[r.id], IssueCount(its[r.id], r.arg), t))
    ELSE LET id == issuances[r.id].itemId IN
         MapSet(its, id,
             updateItemCount(its[id], ReturnCount(its[id], issuances[r.id]), t))

\* the items of a second run of the requests made so far, started and made
\* at time t
Replay(t) ==
    IF last.seq = 0 THEN InitialItems(t)
    ELSE IF last.seq = 1 THEN ReplayOp(InitialItems(t), last, t)
    ELSE ReplayOp(ReplayOp(InitialItems(t), prev, t), last, t)

\* C26 (runs of one or two requests that succeeded): replay is
\* deterministic: making the requests of this run again from the initial
\* state, at any time, gives the items of this run: the same ids, fields,
\* counts and last-updated values.
C26_ReplayIsDeterministic ==
    (/\ last.seq \in {1, 2}
     /\ last.status \in {"200", "201"}
     /\ last.seq = 2 => prev.status \in {"200", "201"})
    => \A t \in 0..MaxClock : Replay(t) = items

\* C27: the inventory, issuance and audit routes are protected by
\* authentication: a request made without an authenticated session is
\* answered 401, changes no item, issuance record or audit entry, and gets
\* none of the lists in its response.
C27_RoutesNeedSession ==
    [][ (last'.seq = last.seq + 1 /\ last'.user \notin DOMAIN users)
        => (/\ last'.status = "401"
            /\ ~last'.found
            /\ UNCHANGED store) ]_vars

\* C27: after a request of a user that stored something, a request without
\* a session was answered 401
C27_Witness ==
    /\ prev.status \in {"200", "201"} /\ prev.user \in DOMAIN users
    /\ last.status = "401" /\ last.user \notin DOMAIN users
    /\ audits # <<>>

\* C28: every stored issuance record carries an issuerId equal to the id of
\* the authenticated user who made the issue request, whatever the request
\* body contains: a record that an issue request answered 201 stores (for
\* a positive quantity of an item in stock) has the key issuerId, and its
\* value is the id of the request's user.
C28_IssuerIsSessionUser ==
    [][ (/\ last'.seq = last.seq + 1
         /\ last'.op = "issue" /\ last'.status = "201"
         /\ last'.arg >= 1 /\ last'.arg <= last'.pre)
        => \A i \in DOMAIN issuances' \ DOMAIN issuances :
               /\ "issuerId" \in DOMAIN issuances'[i]
               /\ issuances'[i].issuerId = last'.user ]_vars

\* C29: no two registered users ever share a username, under every
\* interleaving of concurrent registration requests.
C29_UsernamesAreUnique ==
    \A a \in DOMAIN users, b \in DOMAIN users :
        a # b => users[a].username # users[b].username

\* the ids of the entities in the store
AllIds ==
    DOMAIN users \cup DOMAIN items \cup DOMAIN issuances \cup DOMAIN audits

\* C30: ids come from one shared counter that only increases: the counter
\* never goes down and is above every id in the store; every item, user,
\* issuance or audit entry that a step creates receives an id from the
\* counter, at or above its value before the step and below its value after
\* (so above every id assigned before, a deleted item's id included); two
\* entities created in one step receive different ids, the audit entry the
\* later one; and the stored entity carries the id it is stored under.
C30_IdsFromOneCounter ==
    [][ LET newUsers == DOMAIN users' \ DOMAIN users
            newItems == DOMAIN items' \ DOMAIN items
            newIssuances == DOMAIN issuances' \ DOMAIN issuances
            newAudits == DOMAIN audits' \ DOMAIN audits
            created == newUsers \cup newItems \cup newIssuances
        IN
        /\ currentId' >= currentId
        /\ \A k \in AllIds : k < currentId
        /\ \A k \in created \cup newAudits : currentId <= k /\ k < currentId'
        /\ Cardinality(created) + Cardinality(newAudits)
               = currentId' - currentId
        /\ \A a \in newAudits, k \in created : a > k
        /\ \A k \in newUsers : users'[k].id = k
        /\ \A k \in newItems : items'[k].id = k
        /\ \A k \in newIssuances : issuances'[k].id = k
        /\ \A k \in newAudits : audits'[k].id = k ]_vars

\* C30: an item was deleted and the next request created an item, under an
\* id above the deleted one's
C30_Witness ==
    /\ prev.op = "delete" /\ prev.status = "200"
    /\ last.op = "create" /\ last.status = "201"
    /\ prev.id \notin DOMAIN items
    /\ last.id \in DOMAIN items
    /\ last.id > prev.id

====
